---- MODULE Spec2Model ----
(***************************************************************************)
(* Model of the Relay circuit breaker (relay.ts): its private fields, the  *)
(* event-loop timers it schedules, the attempts in flight, and one action  *)
(* per public operation or event-loop callback.                            *)
(***************************************************************************)
EXTENDS Integers, Sequences, FiniteSets, Bags, TLC

\* ---------------------------------------------------------------- bounds
MaxRuns == 4          \* attempts admitted per behaviour
MaxInFlight == 2      \* attempts with a pending operation or timeout timer
MaxTime == 3          \* last instant of the modelled clock
MaxDefaultCalls == 4  \* calls of setDefault/getDefault/clearDefault per behaviour

Epoch == 1            \* Date.now() at construction (epoch millis are > 0)

\* The option sets tried, times in clock units.  Three timings (a fixed
\* cooldown, where maxCooldown is not consulted; a backoff that doubles before
\* it is capped; a backoff whose cap lies below the base period), each with
\* failureThreshold 1 and 2 and with and without onFallback, and one relay
\* with failureThreshold 3.
Timing(period, backoff, cap) ==
    [coolDownPeriod |-> period, useExponentialBackoff |-> backoff,
     maxCooldown |-> cap]
Fixed == Timing(2, FALSE, 1)
Doubling == Timing(1, TRUE, 2)
Capped == Timing(2, TRUE, 1)
Option(thr, t, fb) ==
    [failureThreshold |-> thr, coolDownPeriod |-> t.coolDownPeriod,
     executionTimeout |-> 1,
     useExponentialBackoff |-> t.useExponentialBackoff,
     maxCooldown |-> t.maxCooldown, onFallback |-> fb]
Options ==
    {Option(1, Fixed, TRUE), Option(1, Doubling, FALSE), Option(1, Capped, TRUE),
     Option(2, Fixed, FALSE), Option(2, Doubling, TRUE), Option(2, Capped, FALSE),
     Option(3, Doubling, FALSE)}

\* ------------------------------------------------------------- constants
CLOSED == "CLOSED"
OPEN == "OPEN"
HALF_OPEN == "HALF_OPEN"
RelayState == {CLOSED, OPEN, HALF_OPEN}

EvOpen == "open"
EvClose == "close"
EvHalfOpen == "halfOpen"
EvSuccess == "success"
EvFailure == "failure"
RelayEvents == {EvOpen, EvClose, EvHalfOpen, EvSuccess, EvFailure}

RelayOpenError == "RelayOpenError"
TimeoutError == "Execution timed out"
OpError == "Failure"

Null == 0                         \* null timer reference
Undefined == "undefined"          \* Map.get() of an absent key
Fns == {"f", "g"}                 \* operation identities passed to run()
Primaries == {"f"}                \* operation identities passed to register()
Fallbacks == {"fb"}               \* fallback identities passed to register()
ArgLists == {<<"a", "b">>}        \* positional arguments passed to run()
Instances == {"relayA", "relayB"} \* Relay identities passed to setDefault()
NoInstance == "null"              \* the empty default slot
NoDefaultError == "No default Relay instance set"

\* Objects handed to register(): property names, and the values found under
\* them.  A value is an operation or fallback identity, a class (the value of
\* a prototype's constructor property), or something that is not callable.
Names == {"exec", "other", "extra", "constructor"}
Absent == "absent"                \* no such own property
Data == "data"                    \* a property value that is not a function
Classes == {"Object", "Base", "Primary", "Fallback"}
Functions == Fns \cup Fallbacks \cup Classes

\* Decorated classes: the methods of the class under decoration and how each
\* was declared, the method a string-named @Fallback resolves to, and the relay
\* handed to the decorators, which is the relay of this model.
Methods == {"riskyMethod"}
Declared == [name \in Methods |-> "AsyncFunction"]
RelayKinds == {"UseRelay", "RelayClass"}
FallbackKinds == {"Fallback", "FallbackClass"}
fallbackMethod == "fallbackMethod"
ThisRelay == "relayA"
BoundMethod == "g"                \* originalMethod.bind(this): never registered
NoCall == [name |-> "", args |-> <<>>]

\* ----------------------------------------------------------------- state
VARIABLES
    options,               \* #options, fixed at construction
    state,                 \* #state
    failureCount,          \* #failureCount
    lastFailureTime,       \* #lastFailureTime
    successCount,          \* #successCount
    totalFailureCount,     \* #totalFailureCount
    timeoutCount,          \* #timeoutCount
    consecutiveOpenCount,  \* #consecutiveOpenCount
    coolDownTimer,         \* #coolDownTimer: a timer id or Null
    fallbackRegistry,      \* #fallbackRegistry: Fns -> Fallbacks \cup {Undefined}
    timers,                \* cooldown timers pending in the event loop: {[id, due]}
    now,                   \* the clock (Date.now())
    attempts,              \* bag of the attempts in flight
    emitted,               \* events emitted by the latest step, in order
    seen,                  \* what a listener of each of those events finds
    returned,              \* the run() called or settled in the latest step, or NoReturn
    defaultInstance,       \* Relay.defaultInstance (static)
    defaultCalls,          \* the static calls, the @UseRelay() applications and
                           \* the calls through their methods so far, in order
    defaultResult,         \* how the latest step's getDefault() ended, or NoResult
    prototype,             \* per method of the decorated class, the wrappers
                           \* the decorators put around it, innermost first
    applied,               \* the class decorators applied so far, in order
    unprotectedCall        \* the latest call of a decorated method that reached
                           \* the method without relay.run(), or NoCall

relayVars == <<state, failureCount, lastFailureTime, successCount,
               totalFailureCount, timeoutCount, consecutiveOpenCount,
               coolDownTimer, timers>>
vars == <<options, state, failureCount, lastFailureTime, successCount,
          totalFailureCount, timeoutCount, consecutiveOpenCount, coolDownTimer,
          fallbackRegistry, timers, now, attempts, emitted, seen, returned,
          defaultInstance, defaultCalls, defaultResult, prototype, applied,
          unprotectedCall>>
defaultVars == <<defaultInstance, defaultCalls, defaultResult>>
decoratorVars == <<prototype, applied, unprotectedCall>>

\* returned.call: run() was called in the step; returned.outcome: how the
\* promise of run(fn, ...args) settled in the step, if it did.
NoOutcome == [settle |-> "none"]
Pending == [settle |-> "pending"]
NoReturn == [call |-> FALSE, fn |-> "", args |-> <<>>, outcome |-> NoOutcome]
NoResult == [threw |-> FALSE, value |-> ""]

\* An attempt in flight.  pc is "running" while run() awaits the race between
\* the operation and the execution-timeout timer (due), "settled" once the
\* operation won the race and only the timer is left, "timedout" once the
\* timer won and only the operation is left.
Running(fn, args, due, admitted) ==
    [pc |-> "running", fn |-> fn, args |-> args, due |-> due, admitted |-> admitted]
Settled(due) ==
    [pc |-> "settled", fn |-> "", args |-> <<>>, due |-> due, admitted |-> ""]
TimedOut ==
    [pc |-> "timedout", fn |-> "", args |-> <<>>, due |-> 0, admitted |-> ""]
InFlight == BagToSet(attempts)
Put(b, a) == b (+) SetToBag({a})
Take(b, a) == b (-) SetToBag({a})

\* The relay's mutable fields, the pending cooldown timers and the events of
\* the current step, gathered so that the private methods compose.
World ==
    [state |-> state, failureCount |-> failureCount,
     lastFailureTime |-> lastFailureTime, successCount |-> successCount,
     totalFailureCount |-> totalFailureCount, timeoutCount |-> timeoutCount,
     consecutiveOpenCount |-> consecutiveOpenCount,
     coolDownTimer |-> coolDownTimer, timers |-> timers, emitted |-> <<>>,
     seen |-> <<>>]

Commit(w) ==
    /\ state' = w.state
    /\ failureCount' = w.failureCount
    /\ lastFailureTime' = w.lastFailureTime
    /\ successCount' = w.successCount
    /\ totalFailureCount' = w.totalFailureCount
    /\ timeoutCount' = w.timeoutCount
    /\ consecutiveOpenCount' = w.consecutiveOpenCount
    /\ coolDownTimer' = w.coolDownTimer
    /\ timers' = w.timers
    /\ emitted' = w.emitted
    /\ seen' = w.seen

Min(a, b) == IF a <= b THEN a ELSE b

\* emit(ev): the listeners run inside the call, and find the relay as it is
\* at that point of the handler.
emit(w, ev) ==
    [w EXCEPT !.emitted = Append(@, ev),
              !.seen = Append(@, [state |-> w.state, timers |-> w.timers])]

\* setTimeout for the cooldown: a handle no pending cooldown timer has.
newTimer(w) == CHOOSE id \in 1..(Cardinality(w.timers) + 1) :
                   \A t \in w.timers : t.id # id

\* clearTimeout(id): a pending timer with that id is cancelled; a fired or
\* already cancelled one is left as it is.
clearTimeout(w, id) == [w EXCEPT !.timers = {t \in @ : t.id # id}]

\* #calculateCooldown with the exponent off by one.
calculateCooldownNextPower(w) ==
    IF ~options.useExponentialBackoff
    THEN options.coolDownPeriod
    ELSE LET multiplier == 2 ^ w.consecutiveOpenCount
             backoffCooldown == options.coolDownPeriod * multiplier
         IN Min(backoffCooldown, options.maxCooldown)

\* #calculateCooldown
calculateCooldown(w) ==
    IF ~options.useExponentialBackoff
    THEN options.coolDownPeriod
    ELSE LET multiplier == 2 ^ (w.consecutiveOpenCount - 1)
             backoffCooldown == options.coolDownPeriod * multiplier
         IN Min(backoffCooldown, options.maxCooldown)

\* #open emitting 'open' before it changes the state.
openEmitFirst(w) ==
    LET w1 == emit(w, EvOpen)
        w2 == [w1 EXCEPT !.consecutiveOpenCount = @ + 1,
                         !.state = OPEN,
                         !.lastFailureTime = now]
        coolDownPeriod == calculateCooldown(w2)
        id == newTimer(w2)
    IN [w2 EXCEPT !.timers = @ \cup {[id |-> id, due |-> now + coolDownPeriod]},
                  !.coolDownTimer = id]

\* #open scheduling the half-open probe one unit too early.
openEarly(w) ==
    LET w1 == [w EXCEPT !.consecutiveOpenCount = @ + 1,
                        !.state = OPEN,
                        !.lastFailureTime = now]
        w2 == emit(w1, EvOpen)
        coolDownPeriod == calculateCooldown(w2) - 1
        id == newTimer(w2)
    IN [w2 EXCEPT !.timers = @ \cup {[id |-> id, due |-> now + coolDownPeriod]},
                  !.coolDownTimer = id]

\* #open
open(w) ==
    LET w1 == [w EXCEPT !.consecutiveOpenCount = @ + 1,
                        !.state = OPEN,
                        !.lastFailureTime = now]
        w2 == emit(w1, EvOpen)
        coolDownPeriod == calculateCooldown(w2)
        id == newTimer(w2)
    IN [w2 EXCEPT !.timers = @ \cup {[id |-> id, due |-> now + coolDownPeriod]},
                  !.coolDownTimer = id]

\* #close zeroing the cumulative metrics along with the counters.
closeResetMetrics(w) ==
    LET w1 == [w EXCEPT !.state = CLOSED,
                        !.consecutiveOpenCount = 0,
                        !.failureCount = 0,
                        !.totalFailureCount = 0,
                        !.timeoutCount = 0]
        w2 == IF w1.coolDownTimer # Null
              THEN [clearTimeout(w1, w1.coolDownTimer) EXCEPT !.coolDownTimer = Null]
              ELSE w1
    IN emit(w2, EvClose)

\* #close forgetting to reset the backoff counter.
closeKeepCount(w) ==
    LET w1 == [w EXCEPT !.state = CLOSED,
                        !.failureCount = 0]
        w2 == IF w1.coolDownTimer # Null
              THEN [clearTimeout(w1, w1.coolDownTimer) EXCEPT !.coolDownTimer = Null]
              ELSE w1
    IN emit(w2, EvClose)

\* #close
close(w) ==
    LET w1 == [w EXCEPT !.state = CLOSED,
                        !.consecutiveOpenCount = 0,
                        !.failureCount = 0]
        w2 == IF w1.coolDownTimer # Null
              THEN [clearTimeout(w1, w1.coolDownTimer) EXCEPT !.coolDownTimer = Null]
              ELSE w1
    IN emit(w2, EvClose)

\* #halfOpen
halfOpen(w) == emit([w EXCEPT !.state = HALF_OPEN], EvHalfOpen)

\* #handleSuccess closing from any state that is not CLOSED.
handleSuccessAnyState(w) ==
    LET w1 == [w EXCEPT !.successCount = @ + 1, !.failureCount = 0]
        w2 == IF w1.state # CLOSED THEN close(w1) ELSE w1
    IN emit(w2, EvSuccess)

\* #handleSuccess
handleSuccess(w) ==
    LET w1 == [w EXCEPT !.successCount = @ + 1, !.failureCount = 0]
        w2 == IF w1.state = HALF_OPEN THEN close(w1) ELSE w1
    IN emit(w2, EvSuccess)

\* #handleFailure recording the time of every failure.
handleFailureStamping(w) ==
    LET w1 == [w EXCEPT !.totalFailureCount = @ + 1, !.failureCount = @ + 1,
                        !.lastFailureTime = now]
        w2 == emit(w1, EvFailure)
    IN IF w2.failureCount >= options.failureThreshold /\ w2.state # OPEN
       THEN open(w2)
       ELSE w2

\* #handleFailure without the test that the relay is not OPEN already.
handleFailureUnguarded(w) ==
    LET w1 == [w EXCEPT !.totalFailureCount = @ + 1, !.failureCount = @ + 1]
        w2 == emit(w1, EvFailure)
    IN IF w2.failureCount >= options.failureThreshold
       THEN open(w2)
       ELSE w2

\* #handleFailure comparing with > instead of >=.
handleFailureStrict(w) ==
    LET w1 == [w EXCEPT !.totalFailureCount = @ + 1, !.failureCount = @ + 1]
        w2 == emit(w1, EvFailure)
    IN IF w2.failureCount > options.failureThreshold /\ w2.state # OPEN
       THEN open(w2)
       ELSE w2

\* #handleFailure
handleFailure(w) ==
    LET w1 == [w EXCEPT !.totalFailureCount = @ + 1, !.failureCount = @ + 1]
        w2 == emit(w1, EvFailure)
    IN IF w2.failureCount >= options.failureThreshold /\ w2.state # OPEN
       THEN open(w2)
       ELSE w2

\* #executeFallback using whatever fallback is registered, for any function.
executeFallbackAnyRegistered(fn, error, args) ==
    IF \E p \in Fns : fallbackRegistry[p] # Undefined
    THEN LET p == CHOOSE q \in Fns : fallbackRegistry[q] # Undefined
         IN [settle |-> "resolve", by |-> "registered",
             callee |-> fallbackRegistry[p], callArgs |-> <<error>> \o args,
             error |-> error]
    ELSE IF options.onFallback
    THEN [settle |-> "resolve", by |-> "onFallback",
          callee |-> "onFallback", callArgs |-> <<error>>, error |-> error]
    ELSE [settle |-> "reject", by |-> "none",
          callee |-> "", callArgs |-> <<>>, error |-> error]

\* #executeFallback handing the registered fallback the error only.
executeFallbackErrorOnly(fn, error, args) ==
    IF fallbackRegistry[fn] # Undefined
    THEN [settle |-> "resolve", by |-> "registered",
          callee |-> fallbackRegistry[fn], callArgs |-> <<error>>,
          error |-> error]
    ELSE IF options.onFallback
    THEN [settle |-> "resolve", by |-> "onFallback",
          callee |-> "onFallback", callArgs |-> <<error>>, error |-> error]
    ELSE [settle |-> "reject", by |-> "none",
          callee |-> "", callArgs |-> <<>>, error |-> error]

\* #executeFallback: how run() settles once the attempt has failed with error.
executeFallback(fn, error, args) ==
    IF fallbackRegistry[fn] # Undefined
    THEN [settle |-> "resolve", by |-> "registered",
          callee |-> fallbackRegistry[fn], callArgs |-> <<error>> \o args,
          error |-> error]
    ELSE IF options.onFallback
    THEN [settle |-> "resolve", by |-> "onFallback",
          callee |-> "onFallback", callArgs |-> <<error>>, error |-> error]
    ELSE [settle |-> "reject", by |-> "none",
          callee |-> "", callArgs |-> <<>>, error |-> error]

\* The value run() returns when the operation itself succeeded.
operationResult(fn, args) ==
    [settle |-> "resolve", by |-> "operation",
     callee |-> fn, callArgs |-> args, error |-> ""]

\* ------------------------------------------------------------------ Init
\* A relay constructed with its backoff counter already at one.
InitCountedOpen ==
    /\ options \in Options
    /\ state = CLOSED
    /\ failureCount = 0
    /\ lastFailureTime = 0
    /\ successCount = 0
    /\ totalFailureCount = 0
    /\ timeoutCount = 0
    /\ consecutiveOpenCount = 1
    /\ coolDownTimer = Null
    /\ fallbackRegistry = [fn \in Fns |-> Undefined]
    /\ timers = {}
    /\ now = Epoch
    /\ attempts = EmptyBag
    /\ emitted = <<>>
    /\ seen = <<>>
    /\ returned = NoReturn
    /\ defaultInstance = NoInstance
    /\ defaultCalls = <<>>
    /\ defaultResult = NoResult
    /\ prototype = [name \in Methods |-> <<>>]
    /\ applied = <<>>
    /\ unprotectedCall = NoCall

Init ==
    /\ options \in Options
    /\ state = CLOSED
    /\ failureCount = 0
    /\ lastFailureTime = 0
    /\ successCount = 0
    /\ totalFailureCount = 0
    /\ timeoutCount = 0
    /\ consecutiveOpenCount = 0
    /\ coolDownTimer = Null
    /\ fallbackRegistry = [fn \in Fns |-> Undefined]
    /\ timers = {}
    /\ now = Epoch
    /\ attempts = EmptyBag
    /\ emitted = <<>>
    /\ seen = <<>>
    /\ returned = NoReturn
    /\ defaultInstance = NoInstance
    /\ defaultCalls = <<>>
    /\ defaultResult = NoResult
    /\ prototype = [name \in Methods |-> <<>>]
    /\ applied = <<>>
    /\ unprotectedCall = NoCall

\* --------------------------------------------------------------- actions

\* The attempts whose run() is still awaiting the race.
RunningAttempts == [a \in {x \in InFlight : x.pc = "running"} |-> attempts[a]]

\* The attempts admitted so far: those that completed, counted once each by
\* #handleSuccess or #handleFailure, and those still awaiting the race.
Admitted == successCount + totalFailureCount + BagCardinality(RunningAttempts)

\* run() treating the rejection while OPEN as one more failure.
RunOpenCounted(fn, args) ==
    /\ state = OPEN
    /\ Commit(handleFailure(World))
    /\ returned' = [call |-> TRUE, fn |-> fn, args |-> args,
                     outcome |-> executeFallback(fn, RelayOpenError, args)]
    /\ UNCHANGED <<defaultVars, decoratorVars>>
    /\ UNCHANGED <<options, fallbackRegistry, now, attempts>>

\* run(fn, ...args) while OPEN: the fallback is resolved at once.
RunOpen(fn, args) ==
    /\ state = OPEN
    /\ returned' = [call |-> TRUE, fn |-> fn, args |-> args,
                     outcome |-> executeFallback(fn, RelayOpenError, args)]
    /\ emitted' = <<>>
    /\ seen' = <<>>
    /\ UNCHANGED <<defaultVars, decoratorVars>>
    /\ UNCHANGED <<options, state, failureCount, lastFailureTime, successCount,
                   totalFailureCount, timeoutCount, consecutiveOpenCount,
                   coolDownTimer, fallbackRegistry, timers, now, attempts>>

\* run() letting a single probe through while HALF_OPEN and turning the
\* others away as if OPEN.
RunAdmitSingleProbe(fn, args) ==
    /\ state # OPEN
    /\ Admitted < MaxRuns
    /\ BagCardinality(attempts) < MaxInFlight
    /\ IF state = HALF_OPEN /\ \E a \in InFlight : a.pc = "running"
       THEN /\ attempts' = attempts
            /\ returned' = [call |-> TRUE, fn |-> fn, args |-> args,
                             outcome |-> executeFallback(fn, RelayOpenError, args)]
       ELSE /\ attempts' = Put(attempts,
                               Running(fn, args, now + options.executionTimeout, state))
            /\ returned' = [call |-> TRUE, fn |-> fn, args |-> args,
                             outcome |-> Pending]
    /\ emitted' = <<>>
    /\ seen' = <<>>
    /\ UNCHANGED <<defaultVars, decoratorVars>>
    /\ UNCHANGED <<options, state, failureCount, lastFailureTime, successCount,
                   totalFailureCount, timeoutCount, consecutiveOpenCount,
                   coolDownTimer, fallbackRegistry, timers, now>>

\* run(fn, ...args) while CLOSED or HALF_OPEN up to the await: the operation
\* is invoked and the execution-timeout timer is armed.
RunAdmit(fn, args) ==
    /\ state # OPEN
    /\ Admitted < MaxRuns
    /\ BagCardinality(attempts) < MaxInFlight
    /\ attempts' = Put(attempts,
                       Running(fn, args, now + options.executionTimeout, state))
    /\ emitted' = <<>>
    /\ seen' = <<>>
    /\ returned' = [call |-> TRUE, fn |-> fn, args |-> args, outcome |-> Pending]
    /\ UNCHANGED <<defaultVars, decoratorVars>>
    /\ UNCHANGED <<options, state, failureCount, lastFailureTime, successCount,
                   totalFailureCount, timeoutCount, consecutiveOpenCount,
                   coolDownTimer, fallbackRegistry, timers, now>>

\* The operation of attempt a resolves before the timeout: run() resumes
\* after the await, calls #handleSuccess and returns the result.  The
\* execution-timeout timer stays armed.
OpResolve(a) ==
    /\ a.pc = "running"
    /\ Commit(handleSuccess(World))
    /\ returned' = [call |-> FALSE, fn |-> a.fn, args |-> a.args,
                     outcome |-> operationResult(a.fn, a.args)]
    /\ attempts' = Put(Take(attempts, a), Settled(a.due))
    /\ UNCHANGED <<defaultVars, decoratorVars>>
    /\ UNCHANGED <<options, fallbackRegistry, now>>

\* run() counting a rejected operation as a success when a fallback answers.
OpRejectFallbackSucceeds(a) ==
    /\ a.pc = "running"
    /\ IF executeFallback(a.fn, OpError, a.args).settle = "resolve"
       THEN Commit(handleSuccess(World))
       ELSE Commit(handleFailure(World))
    /\ returned' = [call |-> FALSE, fn |-> a.fn, args |-> a.args,
                     outcome |-> executeFallback(a.fn, OpError, a.args)]
    /\ attempts' = Put(Take(attempts, a), Settled(a.due))
    /\ UNCHANGED <<defaultVars, decoratorVars>>
    /\ UNCHANGED <<options, fallbackRegistry, now>>

\* The operation of attempt a rejects before the timeout: run() resumes in
\* the catch block.
OpReject(a) ==
    /\ a.pc = "running"
    /\ Commit(handleFailure(World))
    /\ returned' = [call |-> FALSE, fn |-> a.fn, args |-> a.args,
                     outcome |-> executeFallback(a.fn, OpError, a.args)]
    /\ attempts' = Put(Take(attempts, a), Settled(a.due))
    /\ UNCHANGED <<defaultVars, decoratorVars>>
    /\ UNCHANGED <<options, fallbackRegistry, now>>

\* The timeout callback without its timeoutCount++.
TimeoutUncounted(a) ==
    /\ a.pc = "running"
    /\ a.due <= now
    /\ Commit(handleFailure(World))
    /\ returned' = [call |-> FALSE, fn |-> a.fn, args |-> a.args,
                     outcome |-> executeFallback(a.fn, TimeoutError, a.args)]
    /\ attempts' = Put(Take(attempts, a), TimedOut)
    /\ UNCHANGED <<defaultVars, decoratorVars>>
    /\ UNCHANGED <<options, fallbackRegistry, now>>

\* The execution-timeout timer of attempt a fires while the operation is
\* still pending: the callback counts a timeout and rejects the race, and
\* run() resumes in the catch block.
Timeout(a) ==
    /\ a.pc = "running"
    /\ a.due <= now
    /\ Commit(handleFailure([World EXCEPT !.timeoutCount = @ + 1]))
    /\ returned' = [call |-> FALSE, fn |-> a.fn, args |-> a.args,
                     outcome |-> executeFallback(a.fn, TimeoutError, a.args)]
    /\ attempts' = Put(Take(attempts, a), TimedOut)
    /\ UNCHANGED <<defaultVars, decoratorVars>>
    /\ UNCHANGED <<options, fallbackRegistry, now>>

\* The execution-timeout timer of attempt a fires after the operation has
\* settled: the timer was never cleared, so the callback still runs; its
\* reject() is a no-op on the settled race.
StaleTimeout(a) ==
    /\ a.pc = "settled"
    /\ a.due <= now
    /\ timeoutCount' = timeoutCount + 1
    /\ attempts' = Take(attempts, a)
    /\ emitted' = <<>>
    /\ seen' = <<>>
    /\ returned' = NoReturn
    /\ UNCHANGED <<defaultVars, decoratorVars>>
    /\ UNCHANGED <<options, state, failureCount, lastFailureTime, successCount,
                   totalFailureCount, consecutiveOpenCount, coolDownTimer,
                   fallbackRegistry, timers, now>>

\* The late result of a timed-out attempt handled as a success.
LateSettleCounted(a) ==
    /\ a.pc = "timedout"
    /\ attempts' = Take(attempts, a)
    /\ Commit(handleSuccess(World))
    /\ returned' = NoReturn
    /\ UNCHANGED <<defaultVars, decoratorVars>>
    /\ UNCHANGED <<options, fallbackRegistry, now>>

\* The operation of attempt a settles after its attempt timed out: the race
\* is already decided, nothing observes the late result.
LateSettle(a) ==
    /\ a.pc = "timedout"
    /\ attempts' = Take(attempts, a)
    /\ emitted' = <<>>
    /\ seen' = <<>>
    /\ returned' = NoReturn
    /\ UNCHANGED <<defaultVars, decoratorVars>>
    /\ UNCHANGED <<options, state, failureCount, lastFailureTime, successCount,
                   totalFailureCount, timeoutCount, consecutiveOpenCount,
                   coolDownTimer, fallbackRegistry, timers, now>>

\* A pending cooldown timer fires: its callback calls #halfOpen.
CoolDownFire(t) ==
    /\ t \in timers
    /\ t.due <= now
    /\ Commit(halfOpen([World EXCEPT !.timers = @ \ {t}]))
    /\ returned' = NoReturn
    /\ UNCHANGED <<defaultVars, decoratorVars>>
    /\ UNCHANGED <<options, fallbackRegistry, now, attempts>>

\* cleanup() dropping the reference without cancelling the timer.
cleanupKeepTimer ==
    /\ Commit([World EXCEPT !.coolDownTimer = Null])
    /\ returned' = NoReturn
    /\ UNCHANGED <<defaultVars, decoratorVars>>
    /\ UNCHANGED <<options, fallbackRegistry, now, attempts>>

\* cleanup() resetting the consecutive-failure counter as well.
cleanupReset ==
    /\ IF coolDownTimer # Null
       THEN Commit([clearTimeout(World, coolDownTimer) EXCEPT !.coolDownTimer = Null,
                                                              !.failureCount = 0])
       ELSE Commit([World EXCEPT !.failureCount = 0])
    /\ returned' = NoReturn
    /\ UNCHANGED <<defaultVars, decoratorVars>>
    /\ UNCHANGED <<options, fallbackRegistry, now, attempts>>

\* cleanup()
cleanup ==
    /\ IF coolDownTimer # Null
       THEN Commit([clearTimeout(World, coolDownTimer) EXCEPT !.coolDownTimer = Null])
       ELSE Commit(World)
    /\ returned' = NoReturn
    /\ UNCHANGED <<defaultVars, decoratorVars>>
    /\ UNCHANGED <<options, fallbackRegistry, now, attempts>>

\* register(primary, fallback) with two functions
register(primary, fallback) ==
    /\ fallbackRegistry' = [fallbackRegistry EXCEPT ![primary] = fallback]
    /\ emitted' = <<>>
    /\ seen' = <<>>
    /\ returned' = NoReturn
    /\ UNCHANGED <<defaultVars, decoratorVars>>
    /\ UNCHANGED <<options, state, failureCount, lastFailureTime, successCount,
                   totalFailureCount, timeoutCount, consecutiveOpenCount,
                   coolDownTimer, timers, now, attempts>>

\* The own properties of one object of a prototype chain.
Layer(props) ==
    [n \in Names |-> IF \E p \in props : p[1] = n
                     THEN (CHOOSE p \in props : p[1] = n)[2]
                     ELSE Absent]
ObjectPrototype == Layer({<<"constructor", "Object">>})

\* An object literal: its prototype is Object.prototype.
Literal(props) ==
    [own |-> Layer(props), proto |-> ObjectPrototype, rest |-> Layer({})]
\* An instance of a class: own fields, the class's prototype with its methods
\* and constructor, and the rest of the chain (a base class's methods).
InstanceOf(class, fields, methods, inherited) ==
    [own |-> Layer(fields),
     proto |-> Layer(methods \cup {<<"constructor", class>>}),
     rest |-> Layer(inherited)]

getOwnPropertyNames(layer) == {n \in Names : layer[n] # Absent}
\* object[name]: the property is looked up along the prototype chain.
Get(object, name) ==
    IF object.own[name] # Absent THEN object.own[name]
    ELSE IF object.proto[name] # Absent THEN object.proto[name]
    ELSE IF object.rest[name] # Absent THEN object.rest[name]
    ELSE IF ObjectPrototype[name] # Absent THEN ObjectPrototype[name]
    ELSE Undefined
typeof(value) == IF value \in Functions THEN "function" ELSE "other"

\* The objects passed as primary: a literal and a class instance with the
\* methods exec and other, an instance of a class that inherits exec from its
\* base class, and an instance that holds exec as a field.
PrimaryObjs ==
    {Literal({<<"exec", "f">>, <<"other", "g">>}),
     InstanceOf("Primary", {}, {<<"exec", "f">>, <<"other", "g">>}, {}),
     InstanceOf("Primary", {}, {}, {<<"exec", "f">>, <<"constructor", "Base">>}),
     InstanceOf("Primary", {<<"exec", "f">>}, {}, {})}
\* The objects passed as fallback: a literal and a class instance with the
\* method exec, and a literal whose exec is not a function and that has a
\* method of a name the primaries lack.
FallbackObjs ==
    {Literal({<<"exec", "fb">>}),
     InstanceOf("Fallback", {}, {<<"exec", "fb">>}, {}),
     Literal({<<"exec", Data>>, <<"extra", "fb">>})}

\* The names register() pairs for two objects.
pairedMethods(primary, fallback) ==
    LET methodNames == IF primary.proto = ObjectPrototype
                       THEN getOwnPropertyNames(primary.own)
                       ELSE getOwnPropertyNames(primary.proto)
    IN {method \in methodNames :
            /\ method # "constructor"
            /\ typeof(Get(primary, method)) = "function"
            /\ typeof(Get(fallback, method)) = "function"}

\* register(primary, fallback) with two objects
registerObject(primary, fallback) ==
    /\ fallbackRegistry' =
         [fn \in Fns |->
            IF \E m \in pairedMethods(primary, fallback) : Get(primary, m) = fn
            THEN Get(fallback, CHOOSE m \in pairedMethods(primary, fallback) :
                                   Get(primary, m) = fn)
            ELSE fallbackRegistry[fn]]
    /\ emitted' = <<>>
    /\ seen' = <<>>
    /\ returned' = NoReturn
    /\ UNCHANGED <<defaultVars, decoratorVars>>
    /\ UNCHANGED <<options, state, failureCount, lastFailureTime, successCount,
                   totalFailureCount, timeoutCount, consecutiveOpenCount,
                   coolDownTimer, timers, now, attempts>>

\* getMetrics() adding the timeouts to the total a second time.
getMetricsCountingTimeouts ==
    [state |-> state, successes |-> successCount, failures |-> totalFailureCount,
     timeouts |-> timeoutCount,
     total |-> successCount + totalFailureCount + timeoutCount]

\* getMetrics()
getMetrics ==
    [state |-> state, successes |-> successCount, failures |-> totalFailureCount,
     timeouts |-> timeoutCount, total |-> successCount + totalFailureCount]

\* Time passes by one unit; a timer that is due fires before it does.
Tick ==
    /\ now < MaxTime
    /\ \A t \in timers : t.due > now
    /\ \A a \in InFlight : a.pc \in {"running", "settled"} => a.due > now
    /\ now' = now + 1
    /\ emitted' = <<>>
    /\ seen' = <<>>
    /\ returned' = NoReturn
    /\ UNCHANGED <<defaultVars, decoratorVars>>
    /\ UNCHANGED <<options, state, failureCount, lastFailureTime, successCount,
                   totalFailureCount, timeoutCount, consecutiveOpenCount,
                   coolDownTimer, fallbackRegistry, timers, attempts>>

Next ==
    \/ \E fn \in Fns, args \in ArgLists : RunOpen(fn, args)
    \/ \E fn \in Fns, args \in ArgLists : RunAdmit(fn, args)
    \/ \E a \in InFlight : OpResolve(a)
    \/ \E a \in InFlight : OpReject(a)
    \/ \E a \in InFlight : Timeout(a)
    \/ \E a \in InFlight : StaleTimeout(a)
    \/ \E a \in InFlight : LateSettle(a)
    \/ \E t \in timers : CoolDownFire(t)
    \/ \E p \in Primaries, fb \in Fallbacks : register(p, fb)
    \/ cleanup
    \/ Tick

Spec == Init /\ [][Next]_vars

\* The relay with objects, too, handed to register().
RegisterNext ==
    \/ \E p \in PrimaryObjs, fb \in FallbackObjs : registerObject(p, fb)
    \/ Next

RegisterSpec == Init /\ [][RegisterNext]_vars

\* The event loop runs a timer callback once the timer is due, and time passes.
\* Nothing obliges an operation to settle or a client to call.
FairSpec ==
    /\ Spec
    /\ WF_vars(Tick)
    /\ WF_vars(\E t \in timers : CoolDownFire(t))
    /\ WF_vars(\E a \in InFlight : Timeout(a))
    /\ WF_vars(\E a \in InFlight : StaleTimeout(a))

\* ------------------------------------------------- the default instance

\* Relay.setDefault(instance)
setDefault(instance) ==
    /\ Len(defaultCalls) < MaxDefaultCalls
    /\ defaultInstance' = instance
    /\ defaultCalls' = Append(defaultCalls, [op |-> "setDefault", arg |-> instance])
    /\ defaultResult' = NoResult
    /\ UNCHANGED <<decoratorVars, options, relayVars, fallbackRegistry, now, attempts, emitted, seen,
                   returned>>

\* Relay.getDefault() returning the empty slot instead of throwing.
getDefaultUnchecked ==
    /\ Len(defaultCalls) < MaxDefaultCalls
    /\ defaultResult' = [threw |-> FALSE, value |-> defaultInstance]
    /\ defaultCalls' = Append(defaultCalls, [op |-> "getDefault", arg |-> ""])
    /\ UNCHANGED <<decoratorVars, defaultInstance, options, relayVars, fallbackRegistry, now,
                   attempts, emitted, seen, returned>>

\* Relay.getDefault()
getDefault ==
    /\ Len(defaultCalls) < MaxDefaultCalls
    /\ defaultResult' = IF defaultInstance = NoInstance
                        THEN [threw |-> TRUE, value |-> NoDefaultError]
                        ELSE [threw |-> FALSE, value |-> defaultInstance]
    /\ defaultCalls' = Append(defaultCalls, [op |-> "getDefault", arg |-> ""])
    /\ UNCHANGED <<decoratorVars, defaultInstance, options, relayVars, fallbackRegistry, now,
                   attempts, emitted, seen, returned>>

\* Relay.clearDefault()
clearDefault ==
    /\ Len(defaultCalls) < MaxDefaultCalls
    /\ defaultInstance' = NoInstance
    /\ defaultCalls' = Append(defaultCalls, [op |-> "clearDefault", arg |-> ""])
    /\ defaultResult' = NoResult
    /\ UNCHANGED <<decoratorVars, options, relayVars, fallbackRegistry, now, attempts, emitted, seen,
                   returned>>

\* ------------------------------------------------------- the decorators

\* A wrapper a decorator puts around a method; relay is the instance a relay
\* wrapper holds in its closure.
Wrapper(kind, relay) == [kind |-> kind, relay |-> relay]
\* method.constructor.name: the relay wrappers are async functions, the
\* fallback wrappers are plain functions.
constructorName(name, wrappers) ==
    IF wrappers = <<>> THEN Declared[name]
    ELSE IF wrappers[Len(wrappers)].kind \in RelayKinds THEN "AsyncFunction"
    ELSE "Function"
isProtected(wrappers) == \E i \in DOMAIN wrappers : wrappers[i].kind \in RelayKinds
hasFallback(wrappers) == \E i \in DOMAIN wrappers : wrappers[i].kind \in FallbackKinds
relayOf(wrappers) ==
    wrappers[CHOOSE i \in DOMAIN wrappers : wrappers[i].kind \in RelayKinds].relay

\* relay || Relay.getDefault(), the first statement of the decorator UseRelay
\* returns: NoInstance stands for the argument left out.
relayInstance(relay) ==
    IF relay # NoInstance THEN [threw |-> FALSE, value |-> relay]
    ELSE IF defaultInstance = NoInstance
    THEN [threw |-> TRUE, value |-> NoDefaultError]
    ELSE [threw |-> FALSE, value |-> defaultInstance]

\* What applying @UseRelay(relay) leaves in the static calls and their result.
resolveDefault(relay, target) ==
    /\ defaultCalls' = IF relay # NoInstance THEN defaultCalls
                       ELSE Append(defaultCalls, [op |-> "UseRelay", arg |-> target])
    /\ defaultResult' = IF relay # NoInstance THEN NoResult ELSE relayInstance(relay)
    /\ UNCHANGED defaultInstance

\* @UseRelay(relay) applied to the method name.
UseRelay(relay, name) ==
    /\ relay = NoInstance => Len(defaultCalls) < MaxDefaultCalls
    /\ resolveDefault(relay, name)
    /\ prototype' =
         IF relayInstance(relay).threw THEN prototype
         ELSE [prototype EXCEPT
                 ![name] = Append(@, Wrapper("UseRelay", relayInstance(relay).value))]
    /\ UNCHANGED <<applied, unprotectedCall>>
    /\ UNCHANGED <<options, relayVars, fallbackRegistry, now, attempts, emitted, seen,
                   returned>>

\* @UseRelay(relay) applied to the class: the methods whose constructor.name
\* is AsyncFunction are wrapped.
UseRelayClass(relay) ==
    /\ relay = NoInstance => Len(defaultCalls) < MaxDefaultCalls
    /\ resolveDefault(relay, "class")
    /\ prototype' =
         IF relayInstance(relay).threw THEN prototype
         ELSE [name \in Methods |->
                 IF constructorName(name, prototype[name]) = "AsyncFunction"
                 THEN Append(prototype[name],
                             Wrapper("UseRelay", relayInstance(relay).value))
                 ELSE prototype[name]]
    /\ applied' = IF relayInstance(relay).threw THEN applied
                  ELSE Append(applied, "UseRelay")
    /\ UNCHANGED unprotectedCall
    /\ UNCHANGED <<options, relayVars, fallbackRegistry, now, attempts, emitted, seen,
                   returned>>

\* @RelayClass(relay) applied to the class.
RelayClass(relay) ==
    /\ prototype' =
         [name \in Methods |->
            IF constructorName(name, prototype[name]) = "AsyncFunction"
            THEN Append(prototype[name], Wrapper("RelayClass", relay))
            ELSE prototype[name]]
    /\ applied' = Append(applied, "RelayClass")
    /\ UNCHANGED <<defaultVars, unprotectedCall>>
    /\ UNCHANGED <<options, relayVars, fallbackRegistry, now, attempts, emitted, seen,
                   returned>>

\* @Fallback(fallback) applied to the method name.
Fallback(name) ==
    /\ prototype' = [prototype EXCEPT ![name] = Append(@, Wrapper("Fallback", NoInstance))]
    /\ UNCHANGED <<defaultVars, applied, unprotectedCall>>
    /\ UNCHANGED <<options, relayVars, fallbackRegistry, now, attempts, emitted, seen,
                   returned>>

\* @FallbackClass(FallbackClass) applied to the class: every method is wrapped.
FallbackClass ==
    /\ prototype' = [name \in Methods |->
                       Append(prototype[name], Wrapper("FallbackClass", NoInstance))]
    /\ applied' = Append(applied, "FallbackClass")
    /\ UNCHANGED <<defaultVars, unprotectedCall>>
    /\ UNCHANGED <<options, relayVars, fallbackRegistry, now, attempts, emitted, seen,
                   returned>>

\* The fallback wrapper handing the fallback the error only.
catchWithFallbackErrorOnly(wrappers, outcome, args) ==
    IF outcome.settle = "reject" /\ hasFallback(wrappers)
    THEN [settle |-> "resolve", by |-> "decorator",
          callee |-> fallbackMethod, callArgs |-> <<outcome.error>>,
          error |-> outcome.error]
    ELSE outcome

\* What the caller of a method wrapped by a fallback decorator gets, outcome
\* being how the wrapped function settled: a rejection is caught and answered
\* by the fallback, called with the error and the arguments of the call.
catchWithFallback(wrappers, outcome, args) ==
    IF outcome.settle = "reject" /\ hasFallback(wrappers)
    THEN [settle |-> "resolve", by |-> "decorator",
          callee |-> fallbackMethod, callArgs |-> <<outcome.error>> \o args,
          error |-> outcome.error]
    ELSE outcome

\* A call of the decorated method name.  Through a relay wrapper it is
\* relay.run(originalMethod.bind(this), ...args); without one the method runs
\* at once, outside the relay.
invoke(name, args) ==
    \/ /\ isProtected(prototype[name])
       /\ RunOpen(BoundMethod, args)
    \/ /\ isProtected(prototype[name])
       /\ RunAdmit(BoundMethod, args)
    \/ /\ ~isProtected(prototype[name])
       /\ unprotectedCall' = [name |-> name, args |-> args]
       /\ emitted' = <<>>
       /\ seen' = <<>>
       /\ returned' = NoReturn
       /\ UNCHANGED <<defaultVars, prototype, applied>>
       /\ UNCHANGED <<options, relayVars, fallbackRegistry, now, attempts>>

\* A call of a relay-wrapped method looking the default instance up anew.
decoratedCallLateBound(name) ==
    /\ Len(defaultCalls) < MaxDefaultCalls
    /\ isProtected(prototype[name])
    /\ defaultCalls' = Append(defaultCalls, [op |-> "run", arg |-> defaultInstance])
    /\ defaultResult' = NoResult
    /\ UNCHANGED <<decoratorVars, defaultInstance, options, relayVars,
                   fallbackRegistry, now, attempts, emitted, seen, returned>>

\* A call of a relay-wrapped method, as far as the choice of the relay goes:
\* run() is called on the instance the wrapper holds.  What run() does to that
\* instance is the subject of the other specifications.
decoratedCall(name) ==
    /\ Len(defaultCalls) < MaxDefaultCalls
    /\ isProtected(prototype[name])
    /\ defaultCalls' = Append(defaultCalls,
                              [op |-> "run", arg |-> relayOf(prototype[name])])
    /\ defaultResult' = NoResult
    /\ UNCHANGED <<decoratorVars, defaultInstance, options, relayVars,
                   fallbackRegistry, now, attempts, emitted, seen, returned>>

DefaultNext ==
    \/ \E instance \in Instances : setDefault(instance)
    \/ getDefault
    \/ clearDefault
    \/ \E name \in Methods : ~isProtected(prototype[name]) /\ UseRelay(NoInstance, name)
    \/ (\A name \in Methods : ~isProtected(prototype[name])) /\ UseRelayClass(NoInstance)
    \/ \E name \in Methods : decoratedCall(name)

\* The static default slot on its own: relays as constructed, any sequence of
\* setDefault, getDefault and clearDefault calls.
DefaultSpec == Init /\ [][DefaultNext]_vars

\* A class is decorated when it is defined, before any of its methods is
\* called: method decorators first, then class decorators from the bottom up.
ClassDefinition ==
    /\ unprotectedCall = NoCall
    /\ returned = NoReturn
    /\ attempts = EmptyBag
    /\ successCount + totalFailureCount = 0
    /\ now = Epoch

DecoratorNext ==
    \/ \E name \in Methods :
          /\ ClassDefinition /\ applied = <<>> /\ prototype[name] = <<>>
          /\ UseRelay(ThisRelay, name)
    \/ \E name \in Methods :
          /\ ClassDefinition /\ applied = <<>> /\ ~hasFallback(prototype[name])
          /\ Fallback(name)
    \/ /\ ClassDefinition /\ \A name \in Methods : ~hasFallback(prototype[name])
       /\ FallbackClass
    \/ /\ ClassDefinition /\ \A name \in Methods : ~isProtected(prototype[name])
       /\ \A i \in DOMAIN applied : applied[i] \notin RelayKinds
       /\ RelayClass(ThisRelay)
    \/ /\ ClassDefinition /\ \A name \in Methods : ~isProtected(prototype[name])
       /\ \A i \in DOMAIN applied : applied[i] \notin RelayKinds
       /\ UseRelayClass(ThisRelay)
    \/ \E name \in Methods, args \in ArgLists : invoke(name, args)
    \/ \E a \in InFlight : OpResolve(a)
    \/ \E a \in InFlight : OpReject(a)
    \/ \E a \in InFlight : Timeout(a)
    \/ \E a \in InFlight : StaleTimeout(a)
    \/ \E a \in InFlight : LateSettle(a)
    \/ \E t \in timers : CoolDownFire(t)
    \/ Tick

\* The relay called through the methods of decorated classes only.
DecoratorSpec == Init /\ [][DecoratorNext]_vars

TypeOK ==
    /\ state \in RelayState
    /\ failureCount \in 0..MaxRuns
    /\ coolDownTimer \in 0..MaxRuns
    /\ now \in Epoch..MaxTime
    /\ BagCardinality(attempts) <= MaxInFlight

\* ================================================================ claims

\* C1: from CLOSED, failureCount counts the failures completed since the last
\* success; the state becomes OPEN exactly in the step that completes the
\* failureThreshold-th consecutive failure, lastFailureTime is then > 0, and
\* a failure that leaves the count below failureThreshold leaves it CLOSED.
ClaimC1 ==
    [][LET thr == options.failureThreshold
           failed == totalFailureCount' = totalFailureCount + 1
           succeeded == successCount' = successCount + 1
       IN /\ failed => failureCount' = failureCount + 1
          /\ succeeded => failureCount' = 0
          /\ (~failed /\ ~succeeded) => failureCount' = failureCount
          /\ state = CLOSED =>
               /\ failureCount < thr
               /\ (failed /\ failureCount + 1 = thr) =>
                      (state' = OPEN /\ lastFailureTime' > 0)
               /\ (failed /\ failureCount + 1 < thr) => state' = CLOSED
               /\ state' = OPEN => (failed /\ failureCount + 1 = thr)]_vars

\* The second of two consecutive failures has just opened a relay whose
\* failureThreshold is 2.
WitnessC1 ==
    /\ options.failureThreshold = 2
    /\ state = OPEN
    /\ failureCount = 2
    /\ successCount = 0
    /\ consecutiveOpenCount = 1
    /\ lastFailureTime > 0
    /\ emitted = <<EvFailure, EvOpen>>

\* C2: a run() called while OPEN invokes no operation (no attempt is put in
\* flight), leaves state, failureCount, consecutiveOpenCount, lastFailureTime,
\* the cooldown timer and the metrics unchanged, and rejects with
\* RelayOpenError when neither a registered fallback nor onFallback applies.
ClaimC2 ==
    [][(state = OPEN /\ returned'.call) =>
          /\ attempts' = attempts
          /\ UNCHANGED <<state, failureCount, consecutiveOpenCount,
                         lastFailureTime, coolDownTimer, timers, successCount,
                         totalFailureCount, timeoutCount>>
          /\ emitted' = <<>>
          /\ (fallbackRegistry[returned'.fn] = Undefined /\ ~options.onFallback) =>
                 /\ returned'.outcome.settle = "reject"
                 /\ returned'.outcome.error = RelayOpenError]_vars

\* A run() has just been rejected with RelayOpenError by an OPEN relay.
WitnessC2 ==
    /\ state = OPEN
    /\ returned.call
    /\ returned.outcome.settle = "reject"
    /\ returned.outcome.error = RelayOpenError
    /\ totalFailureCount = failureCount
    /\ failureCount = options.failureThreshold

\* C3: the state leaves OPEN only for HALF_OPEN and not before the cooldown
\* computed at the open has elapsed since lastFailureTime; time does not pass
\* the end of that cooldown with the timer still pending; and a relay that is
\* OPEN with its timer pending (due within the modelled time) becomes
\* HALF_OPEN unless cleanup() drops the timer.
ClaimC3 ==
    /\ [][(state = OPEN /\ state' # OPEN) =>
             /\ state' = HALF_OPEN
             /\ now >= lastFailureTime + calculateCooldown(World)]_vars
    /\ []((state = OPEN /\ timers # {}) =>
             now <= lastFailureTime + calculateCooldown(World))
    /\ (state = OPEN /\ \E t \in timers : t.id = coolDownTimer /\ t.due <= MaxTime)
          ~> (state = HALF_OPEN \/ coolDownTimer = Null)

\* The cooldown timer has just fired, a full cooldown after the open.
WitnessC3 ==
    /\ state = HALF_OPEN
    /\ emitted = <<EvHalfOpen>>
    /\ coolDownTimer # Null
    /\ now = lastFailureTime + calculateCooldown(World)
    /\ calculateCooldown(World) = 2

\* C4: an attempt that succeeds while HALF_OPEN closes the relay with
\* failureCount = 0 and consecutiveOpenCount = 0, and its run() resolves with
\* the operation's result.
ClaimC4 ==
    [][(state = HALF_OPEN /\ successCount' = successCount + 1) =>
          /\ state' = CLOSED
          /\ failureCount' = 0
          /\ consecutiveOpenCount' = 0
          /\ \E a \in InFlight :
                /\ a.pc = "running"
                /\ attempts' = Put(Take(attempts, a), Settled(a.due))
                /\ returned'.outcome.settle = "resolve"
                /\ returned'.outcome.by = "operation"
                /\ returned'.outcome.callee = a.fn
                /\ returned'.outcome.callArgs = a.args]_vars

\* A probe has just succeeded and closed a relay that had opened twice.
WitnessC4 ==
    /\ state = CLOSED
    /\ emitted = <<EvClose, EvSuccess>>
    /\ returned.outcome.by = "operation"
    /\ totalFailureCount >= 2
    /\ options.failureThreshold = 1
    /\ consecutiveOpenCount = 0

\* C5 as claimed: every failure completed while HALF_OPEN reopens the relay
\* and adds one to consecutiveOpenCount.
OrigC5 ==
    [][(state = HALF_OPEN /\ totalFailureCount' = totalFailureCount + 1) =>
          /\ state' = OPEN
          /\ consecutiveOpenCount' = consecutiveOpenCount + 1]_vars

\* C6: the state changes only CLOSED->OPEN, OPEN->HALF_OPEN, HALF_OPEN->CLOSED
\* and HALF_OPEN->OPEN, and the cooldown timer fires in state OPEN only.
ClaimC6 ==
    [][/\ state' # state =>
             <<state, state'>> \in {<<CLOSED, OPEN>>, <<OPEN, HALF_OPEN>>,
                                    <<HALF_OPEN, CLOSED>>, <<HALF_OPEN, OPEN>>}
       /\ EvHalfOpen \in {emitted'[i] : i \in 1..Len(emitted')} =>
             (state = OPEN /\ timers' # timers)]_vars

\* The cooldown timer has just fired while an attempt admitted before the
\* open is still running.
WitnessC6 ==
    /\ state = HALF_OPEN
    /\ emitted = <<EvHalfOpen>>
    /\ \E a \in InFlight : a.pc = "running" /\ a.admitted = CLOSED

\* C7: a run() that failed with error e (the operation's error or the
\* timeout) or was turned away while OPEN (e is RelayOpenError) settles by the
\* fallback registered for fn called with (e, ...args) if there is one, else
\* by onFallback called with (e) if configured, else by rejecting with e.
ClaimC7 ==
    LET o == returned.outcome
        failed == Len(emitted) > 0 /\ emitted[1] = EvFailure
    IN /\ failed => (~returned.call /\ o.settle \in {"resolve", "reject"}
                        /\ o.by # "operation")
       /\ (returned.call /\ o.settle # "pending") =>
              (o.settle \in {"resolve", "reject"} /\ o.by # "operation")
       /\ (o.settle \in {"resolve", "reject"} /\ o.by # "operation") =>
            /\ returned.call => (o.error = RelayOpenError /\ state = OPEN)
            /\ ~returned.call => (o.error \in {OpError, TimeoutError} /\ failed)
            /\ IF fallbackRegistry[returned.fn] # Undefined
               THEN /\ o.settle = "resolve"
                    /\ o.by = "registered"
                    /\ o.callee = fallbackRegistry[returned.fn]
                    /\ o.callArgs = <<o.error>> \o returned.args
               ELSE IF options.onFallback
               THEN /\ o.settle = "resolve"
                    /\ o.by = "onFallback"
                    /\ o.callArgs = <<o.error>>
               ELSE /\ o.settle = "reject"
                    /\ o.by = "none"

\* A timed-out attempt on a registered function has just been answered by the
\* registered fallback although onFallback is configured too.
WitnessC7 ==
    /\ options.onFallback
    /\ returned.outcome.settle = "resolve"
    /\ returned.outcome.by = "registered"
    /\ returned.outcome.error = TimeoutError
    /\ returned.outcome.callArgs = <<TimeoutError, "a", "b">>

\* C8: when the execution timeout of a running attempt fires, timeouts,
\* failures and failureCount each grow by one, successes does not, run()
\* fails with the timeout error, and the relay is OPEN afterwards if
\* failureCount has reached failureThreshold (opening if it was not OPEN).
ClaimC8 ==
    [][(\E a \in InFlight :
           /\ a.pc = "running"
           /\ a.due <= now
           /\ attempts' = Put(Take(attempts, a), TimedOut)) =>
          /\ timeoutCount' = timeoutCount + 1
          /\ totalFailureCount' = totalFailureCount + 1
          /\ failureCount' = failureCount + 1
          /\ successCount' = successCount
          /\ returned'.outcome.error = TimeoutError
          /\ failureCount' >= options.failureThreshold => state' = OPEN
          /\ (failureCount' >= options.failureThreshold /\ state # OPEN) =>
                 consecutiveOpenCount' = consecutiveOpenCount + 1
          /\ failureCount' < options.failureThreshold => state' = state]_vars

\* The second timeout in a row has just opened a relay with failureThreshold 2.
WitnessC8 ==
    /\ options.failureThreshold = 2
    /\ state = OPEN
    /\ timeoutCount = 2
    /\ totalFailureCount = 2
    /\ successCount = 0
    /\ emitted = <<EvFailure, EvOpen>>
    /\ returned.outcome.error = TimeoutError

\* base * 2^(n-1), by repeated doubling.
RECURSIVE DoubledTimes(_, _)
DoubledTimes(base, n) == IF n <= 1 THEN base ELSE 2 * DoubledTimes(base, n - 1)

\* C9: the timer scheduled by an open transition is due coolDownPeriod after
\* it without backoff, and min(coolDownPeriod * 2^(N-1), maxCooldown) after it
\* with backoff, N being consecutiveOpenCount after the increment.
ClaimC9 ==
    [][consecutiveOpenCount' = consecutiveOpenCount + 1 =>
          \E t \in timers' :
             /\ t \notin timers
             /\ t.id = coolDownTimer'
             /\ t.due - now =
                  IF options.useExponentialBackoff
                  THEN Min(DoubledTimes(options.coolDownPeriod, consecutiveOpenCount'),
                           options.maxCooldown)
                  ELSE options.coolDownPeriod]_vars

\* The second consecutive open has just scheduled a doubled, uncapped cooldown.
WitnessC9 ==
    /\ options.useExponentialBackoff
    /\ state = OPEN
    /\ consecutiveOpenCount = 2
    /\ emitted = <<EvFailure, EvOpen>>
    /\ \E t \in timers : t.id = coolDownTimer /\ t.due - now = 2 * options.coolDownPeriod

\* C10: an open transition from CLOSED is the first consecutive open: its
\* cooldown is min(coolDownPeriod, maxCooldown) with backoff (coolDownPeriod
\* without), however many opens came before the close.
ClaimC10 ==
    [][(state = CLOSED /\ state' = OPEN) =>
          /\ consecutiveOpenCount' = 1
          /\ \E t \in timers' :
                /\ t.id = coolDownTimer'
                /\ t.due - now =
                     IF options.useExponentialBackoff
                     THEN Min(options.coolDownPeriod, options.maxCooldown)
                     ELSE options.coolDownPeriod]_vars

\* A relay with backoff that had opened and closed has just opened again, as
\* a first open.
WitnessC10 ==
    /\ options.useExponentialBackoff
    /\ options.failureThreshold = 1
    /\ state = OPEN
    /\ emitted = <<EvFailure, EvOpen>>
    /\ consecutiveOpenCount = 1
    /\ successCount >= 1
    /\ totalFailureCount >= 2
    /\ \E t \in timers : t.due - now = options.coolDownPeriod

\* C11: a step that drops the timer reference of an OPEN relay (only
\* cleanup() does) cancels the pending cooldown timer, and from then on no
\* step, clock ticks included, takes the relay out of OPEN or brings a timer
\* back.
ClaimC11 ==
    [][/\ (state = OPEN /\ coolDownTimer # Null /\ coolDownTimer' = Null) =>
             (state' = OPEN /\ timers' = {})
       /\ (state = OPEN /\ coolDownTimer = Null) =>
             (state' = OPEN /\ coolDownTimer' = Null /\ timers' = {})]_vars

\* cleanup() was called on an OPEN relay and the clock has passed the instant
\* the cancelled timer was due.
WitnessC11 ==
    /\ state = OPEN
    /\ coolDownTimer = Null
    /\ timers = {}
    /\ now > lastFailureTime + calculateCooldown(World)

\* C12: every cleanup() step leaves state, failureCount,
\* consecutiveOpenCount, lastFailureTime, the metrics, the registry and the
\* attempts in flight as they were and ends with no timer reference; called
\* with no timer reference (as a second call in a row is) it changes nothing.
ClaimC12 ==
    [][cleanup =>
          /\ UNCHANGED <<state, failureCount, consecutiveOpenCount,
                         lastFailureTime, successCount, totalFailureCount,
                         timeoutCount, fallbackRegistry, attempts, now>>
          /\ getMetrics' = getMetrics
          /\ coolDownTimer' = Null
          /\ coolDownTimer = Null => timers' = timers
          /\ emitted' = <<>>]_vars

\* cleanup() was called on a HALF_OPEN relay, where the reference is left over
\* from the timer that fired and nothing is pending.
WitnessC12 ==
    /\ state = HALF_OPEN
    /\ coolDownTimer = Null
    /\ failureCount >= 1
    /\ consecutiveOpenCount = 1

\* C13: at most one cooldown timer is pending.
ClaimC13 == Cardinality(timers) <= 1

\* The relay has reopened from HALF_OPEN and its second timer is pending while
\* an attempt is still in flight.
WitnessC13 ==
    /\ Cardinality(timers) = 1
    /\ state = OPEN
    /\ consecutiveOpenCount = 2
    /\ \E a \in InFlight : a.pc = "running"

\* C14 as claimed: failureCount < failureThreshold whenever the state is
\* CLOSED or HALF_OPEN.
OrigC14 ==
    state \in {CLOSED, HALF_OPEN} => failureCount < options.failureThreshold

\* C14 amended: failureCount < failureThreshold whenever the state is CLOSED
\* (failureThreshold >= 1); the half-open transition does not touch
\* failureCount, which in HALF_OPEN may therefore be at or above the threshold.
ClaimC14 ==
    state = CLOSED => failureCount < options.failureThreshold

\* A relay that opened and closed again has one failure short of its
\* threshold on the count.
WitnessC14 ==
    /\ state = CLOSED
    /\ options.failureThreshold = 2
    /\ failureCount = 1
    /\ lastFailureTime > 0
    /\ emitted = <<EvFailure>>

\* C15 as claimed: timeouts never exceeds failures.
OrigC15 == getMetrics.timeouts <= getMetrics.failures

\* C16: the total of a metrics snapshot is the sum of its successes and its
\* failures.
ClaimC16 ==
    LET m == getMetrics
    IN /\ m.total = m.successes + m.failures
       /\ m.successes = successCount
       /\ m.failures = totalFailureCount

\* A snapshot after a success, two failures, timer firings and a cleanup().
WitnessC16 ==
    /\ getMetrics.total = 3
    /\ getMetrics.successes = 1
    /\ getMetrics.failures = 2
    /\ getMetrics.timeouts >= 1
    /\ state = OPEN
    /\ coolDownTimer = Null

\* C17: no step lowers successes, failures or timeouts.
ClaimC17 ==
    [][/\ getMetrics'.successes >= getMetrics.successes
       /\ getMetrics'.failures >= getMetrics.failures
       /\ getMetrics'.timeouts >= getMetrics.timeouts]_vars

\* A close transition has just happened and the failures and timeouts counted
\* before it are still there.
WitnessC17 ==
    /\ state = CLOSED
    /\ emitted = <<EvClose, EvSuccess>>
    /\ getMetrics.failures >= 1
    /\ getMetrics.timeouts >= 1
    /\ getMetrics.successes = 1

\* C18: a run() that settles with a fallback's result after its operation
\* failed has counted the failure: failures and failureCount are one higher,
\* successes is unchanged, and the relay is OPEN afterwards exactly if it was
\* OPEN or failureCount has reached failureThreshold.
ClaimC18 ==
    [][(/\ ~returned'.call
        /\ returned'.outcome.settle = "resolve"
        /\ returned'.outcome.by \in {"registered", "onFallback"}) =>
          /\ totalFailureCount' = totalFailureCount + 1
          /\ failureCount' = failureCount + 1
          /\ successCount' = successCount
          /\ emitted'[1] = EvFailure
          /\ state' = IF state = OPEN \/ failureCount + 1 >= options.failureThreshold
                      THEN OPEN
                      ELSE state]_vars

\* The second failure answered by onFallback has just opened a relay with
\* failureThreshold 2.
WitnessC18 ==
    /\ options.failureThreshold = 2
    /\ state = OPEN
    /\ emitted = <<EvFailure, EvOpen>>
    /\ successCount = 0
    /\ totalFailureCount = 2
    /\ returned.outcome.settle = "resolve"
    /\ returned.outcome.by = "onFallback"
    /\ returned.outcome.error = OpError

\* C19: a run() is answered by a registered fallback only if that fallback is
\* registered for the very function run() was given; for a function with no
\* registration it is answered by onFallback if configured and rejects with
\* the error otherwise.
ClaimC19 ==
    LET o == returned.outcome
    IN (o.settle \in {"resolve", "reject"} /\ o.by # "operation") =>
          /\ o.by = "registered" =>
                /\ fallbackRegistry[returned.fn] # Undefined
                /\ o.callee = fallbackRegistry[returned.fn]
          /\ fallbackRegistry[returned.fn] = Undefined =>
                IF options.onFallback
                THEN o.by = "onFallback" /\ o.settle = "resolve"
                ELSE o.by = "none" /\ o.settle = "reject"

\* With a fallback registered for f, a failed attempt on g has just rejected
\* with the operation's error.
WitnessC19 ==
    /\ fallbackRegistry["f"] = "fb"
    /\ returned.fn = "g"
    /\ ~returned.call
    /\ returned.outcome.settle = "reject"
    /\ returned.outcome.error = OpError

\* C20: the step in which the operation of a timed-out attempt settles
\* changes no field of the relay and no pending timer and emits no event.
ClaimC20 ==
    [][(\E a \in InFlight : a.pc = "timedout" /\ attempts' = Take(attempts, a)) =>
          /\ UNCHANGED <<state, failureCount, lastFailureTime, successCount,
                         totalFailureCount, timeoutCount, consecutiveOpenCount,
                         coolDownTimer, timers, fallbackRegistry>>
          /\ getMetrics' = getMetrics
          /\ emitted' = <<>>
          /\ returned'.outcome = NoOutcome]_vars

\* The only attempt so far timed out, opening the relay, and its operation
\* has settled since.
WitnessC20 ==
    /\ state = OPEN
    /\ lastFailureTime = Epoch + options.executionTimeout
    /\ totalFailureCount = 1
    /\ timeoutCount = 1
    /\ successCount = 0
    /\ attempts = EmptyBag
    /\ returned = NoReturn

\* C21: a run() called while CLOSED or HALF_OPEN invokes its operation, with
\* its arguments, however many attempts are in flight, and changes no field of
\* the relay; each completion adds to the counters as they stand at that step.
ClaimC21 ==
    [][/\ (state # OPEN /\ returned'.call) =>
             /\ attempts' = Put(attempts,
                                Running(returned'.fn, returned'.args,
                                        now + options.executionTimeout, state))
             /\ returned'.outcome = Pending
             /\ UNCHANGED <<state, failureCount, successCount, totalFailureCount,
                            consecutiveOpenCount, timers>>
       /\ (~returned'.call /\ returned'.outcome.settle \in {"resolve", "reject"}) =>
             /\ successCount' + totalFailureCount' = successCount + totalFailureCount + 1
             /\ failureCount' \in {0, failureCount + 1}]_vars

\* A second attempt has just been admitted while HALF_OPEN with the first probe
\* still running.
WitnessC21 ==
    /\ state = HALF_OPEN
    /\ returned.call
    /\ returned.outcome = Pending
    /\ \E a \in InFlight : a.pc = "running" /\ a.admitted = HALF_OPEN /\ attempts[a] = 2

\* C22: a failure completing while the state is OPEN adds one to failures and
\* to failureCount and does not open again: state, consecutiveOpenCount,
\* lastFailureTime and the pending cooldown timer are unchanged and no 'open'
\* event is emitted.
ClaimC22 ==
    [][(state = OPEN /\ totalFailureCount' = totalFailureCount + 1) =>
          /\ failureCount' = failureCount + 1
          /\ UNCHANGED <<state, consecutiveOpenCount, lastFailureTime,
                         coolDownTimer, timers>>
          /\ emitted' = <<EvFailure>>]_vars

\* An attempt admitted before the relay opened has just failed while it is
\* OPEN, taking failureCount past the threshold.
WitnessC22 ==
    /\ state = OPEN
    /\ emitted = <<EvFailure>>
    /\ failureCount > options.failureThreshold
    /\ consecutiveOpenCount = 1
    /\ timers # {}

\* C23: lastFailureTime is 0 at construction, is set to the current time (> 0)
\* by every open transition and is changed by no other step.
ClaimC23 ==
    /\ lastFailureTime = 0
    /\ [][IF state # OPEN /\ state' = OPEN
          THEN lastFailureTime' = now /\ now > 0
          ELSE lastFailureTime' = lastFailureTime]_vars

\* A failure below the threshold has just completed on a relay that had opened
\* earlier and closed since; lastFailureTime is still the time of that open.
WitnessC23 ==
    /\ state = CLOSED
    /\ emitted = <<EvFailure>>
    /\ lastFailureTime > 0
    /\ lastFailureTime < now
    /\ failureCount = 1

\* The instance the slot holds after a sequence of static calls: the argument
\* of the latest setDefault with no clearDefault after it, else none.
RECURSIVE SlotAfter(_)
SlotAfter(calls) ==
    IF calls = <<>> THEN NoInstance
    ELSE LET last == calls[Len(calls)]
         IN IF last.op = "setDefault" THEN last.arg
            ELSE IF last.op = "clearDefault" THEN NoInstance
            ELSE SlotAfter(SubSeq(calls, 1, Len(calls) - 1))

\* C24: after any sequence of setDefault/clearDefault/getDefault calls the
\* slot holds the instance of the latest setDefault that no clearDefault
\* followed; a getDefault() returns that instance, and throws the 'No default
\* Relay instance set' error when there is none (never set, or cleared).
ClaimC24 ==
    /\ defaultInstance = SlotAfter(defaultCalls)
    /\ (defaultCalls # <<>> /\ defaultCalls[Len(defaultCalls)].op = "getDefault") =>
          defaultResult = IF SlotAfter(defaultCalls) = NoInstance
                          THEN [threw |-> TRUE, value |-> NoDefaultError]
                          ELSE [threw |-> FALSE, value |-> SlotAfter(defaultCalls)]

\* getDefault() has just thrown after setDefault, clearDefault and a
\* clearDefault on the empty slot.
WitnessC24 ==
    /\ Len(defaultCalls) = 4
    /\ defaultCalls[1].op = "setDefault"
    /\ defaultCalls[2].op = "clearDefault"
    /\ defaultCalls[3].op = "clearDefault"
    /\ defaultCalls[4].op = "getDefault"
    /\ defaultResult = [threw |-> TRUE, value |-> NoDefaultError]

\* C25: whatever its configuration, which no step changes afterwards, a relay
\* as constructed is CLOSED with successes, failures, timeouts and total 0,
\* lastFailureTime 0, failureCount 0, consecutiveOpenCount 0, no timer
\* reference and no pending cooldown timer.
ClaimC25 ==
    /\ state = CLOSED
    /\ getMetrics = [state |-> CLOSED, successes |-> 0, failures |-> 0,
                     timeouts |-> 0, total |-> 0]
    /\ lastFailureTime = 0
    /\ failureCount = 0
    /\ consecutiveOpenCount = 0
    /\ coolDownTimer = Null
    /\ timers = {}
    /\ [][options' = options]_vars

\* A relay just constructed with failureThreshold 3 and exponential backoff.
WitnessC25 ==
    /\ options.failureThreshold = 3
    /\ options.useExponentialBackoff
    /\ state = CLOSED
    /\ getMetrics.total = 0
    /\ getMetrics.timeouts = 0
    /\ now = Epoch
    /\ attempts = EmptyBag
    /\ timers = {}
    /\ fallbackRegistry = [fn \in Fns |-> Undefined]
    /\ returned = NoReturn

\* C26: once cleanup() has been called on an OPEN relay (OPEN with no timer
\* reference), every step leaves it OPEN with no timer, and every run() is
\* answered from the RelayOpenError without an operation being invoked.
ClaimC26 ==
    [][/\ (cleanup /\ state = OPEN) => (state' = OPEN /\ coolDownTimer' = Null)
       /\ (state = OPEN /\ coolDownTimer = Null) =>
             /\ state' = OPEN
             /\ coolDownTimer' = Null
             /\ timers' = {}
             /\ returned'.call =>
                   /\ attempts' = attempts
                   /\ returned'.outcome.error = RelayOpenError]_vars

\* After cleanup() on an OPEN relay an attempt in flight has succeeded, the
\* cooldown has run out, and a run() has just been turned away.
WitnessC26 ==
    /\ state = OPEN
    /\ coolDownTimer = Null
    /\ successCount = 1
    /\ now > lastFailureTime + calculateCooldown(World)
    /\ returned.call
    /\ returned.outcome.error = RelayOpenError

\* C27 as claimed: the state goes HALF_OPEN -> CLOSED only in the step where
\* an attempt admitted while HALF_OPEN succeeds.
OrigC27 ==
    [][(state = HALF_OPEN /\ state' = CLOSED) =>
          \E a \in InFlight :
             /\ a.pc = "running"
             /\ a.admitted = HALF_OPEN
             /\ attempts' = Put(Take(attempts, a), Settled(a.due))]_vars

\* C27 amended: the state becomes CLOSED only from HALF_OPEN and only in the
\* step where a running attempt succeeds, whenever that attempt was admitted:
\* while HALF_OPEN, or while CLOSED before the relay opened.
ClaimC27 ==
    [][(state # CLOSED /\ state' = CLOSED) =>
          /\ state = HALF_OPEN
          /\ successCount' = successCount + 1
          /\ returned'.outcome.by = "operation"
          /\ \E a \in InFlight :
                /\ a.pc = "running"
                /\ a.admitted \in {CLOSED, HALF_OPEN}
                /\ attempts' = Put(Take(attempts, a), Settled(a.due))]_vars

\* Two attempts were admitted at construction time; one failed and opened the
\* relay, the cooldown ran out, and the success of the other has just closed it.
WitnessC27 ==
    /\ state = CLOSED
    /\ emitted = <<EvClose, EvSuccess>>
    /\ successCount = 1
    /\ totalFailureCount = 1
    /\ attempts = SetToBag({Settled(Epoch + options.executionTimeout)})
                     (+) SetToBag({Settled(Epoch + options.executionTimeout)})

\* C28 as claimed: once an attempt has settled, no timer scheduled for it is
\* pending.
OrigC28 == \A a \in InFlight : a.pc # "settled"

\* C29 as claimed: a timer reference held by the relay is the reference of a
\* pending timer.
OrigC29 == coolDownTimer # Null => \E t \in timers : t.id = coolDownTimer

\* C30: the step in which an attempt completes adds one to exactly one of
\* successes and failures, and so one to total; no other step (an admission, a
\* run() turned away while OPEN, a timer, cleanup()) changes either.
ClaimC30 ==
    [][LET completed == BagCardinality(RunningAttempts') = BagCardinality(RunningAttempts) - 1
           ds == getMetrics'.successes - getMetrics.successes
           df == getMetrics'.failures - getMetrics.failures
       IN /\ completed => (<<ds, df>> \in {<<1, 0>>, <<0, 1>>}
                             /\ getMetrics'.total = getMetrics.total + 1)
          /\ ~completed => (ds = 0 /\ df = 0)]_vars

\* Three attempts have completed, one is still running, and a run() has just
\* been turned away by the OPEN relay: total is 3.
WitnessC30 ==
    /\ getMetrics.total = 3
    /\ BagCardinality(RunningAttempts) = 1
    /\ state = OPEN
    /\ returned.call
    /\ returned.outcome.error = RelayOpenError

\* C31: the events of a transition are emitted in the step that makes it: a
\* step into OPEN emits 'failure' then 'open', the listener of 'open' finding
\* the state OPEN and the new cooldown timer not scheduled yet; a step into
\* CLOSED emits 'close' then 'success', the listener of 'close' finding the
\* state CLOSED; a step into HALF_OPEN emits 'halfOpen', its listener finding
\* the state HALF_OPEN.
ClaimC31 ==
    [][/\ Len(seen') = Len(emitted')
       /\ (state # OPEN /\ state' = OPEN) =>
             /\ emitted' = <<EvFailure, EvOpen>>
             /\ seen'[1].state = state
             /\ seen'[2].state = OPEN
             /\ seen'[2].timers = timers
             /\ \E t \in timers' : t \notin timers
       /\ (state # CLOSED /\ state' = CLOSED) =>
             /\ emitted' = <<EvClose, EvSuccess>>
             /\ seen'[1].state = CLOSED
             /\ seen'[2].state = CLOSED
       /\ (state # HALF_OPEN /\ state' = HALF_OPEN) =>
             /\ emitted' = <<EvHalfOpen>>
             /\ seen'[1].state = HALF_OPEN]_vars

\* A failed probe has just reopened the relay: the listener of 'failure' found
\* it HALF_OPEN, the listener of 'open' found it OPEN with no timer pending.
WitnessC31 ==
    /\ emitted = <<EvFailure, EvOpen>>
    /\ seen[1].state = HALF_OPEN
    /\ seen[2].state = OPEN
    /\ seen[2].timers = {}
    /\ timers # {}

\* C32: starting CLOSED, a step emits one of 'open', 'halfOpen' and 'close'
\* exactly if it changes the state, and emits 'open' only from CLOSED or
\* HALF_OPEN into OPEN, 'halfOpen' only from OPEN into HALF_OPEN and 'close'
\* only from HALF_OPEN into CLOSED; so the first of these events is 'open',
\* 'halfOpen' follows 'open', 'close' or 'open' follows 'halfOpen' and 'open'
\* follows 'close'.
ClaimC32 ==
    /\ state = CLOSED
    /\ [][LET IsTransition(e) == e \in {EvOpen, EvHalfOpen, EvClose}
              life == SelectSeq(emitted', IsTransition)
          IN /\ state' # state => Len(life) = 1
             /\ state' = state => life = <<>>
             /\ life # <<>> =>
                   \/ life[1] = EvOpen /\ state \in {CLOSED, HALF_OPEN} /\ state' = OPEN
                   \/ life[1] = EvHalfOpen /\ state = OPEN /\ state' = HALF_OPEN
                   \/ life[1] = EvClose /\ state = HALF_OPEN /\ state' = CLOSED]_vars

\* 'open' has just been emitted after an 'open', a 'halfOpen' and a 'close'.
WitnessC32 ==
    /\ options = Option(1, Fixed, TRUE)
    /\ state = OPEN
    /\ emitted = <<EvFailure, EvOpen>>
    /\ successCount = 1
    /\ totalFailureCount = 2

\* C33: a cooldown timer is pending only while the state is OPEN.
ClaimC33 == timers # {} => state = OPEN

\* A success has completed while the relay is OPEN and its cooldown timer is
\* pending.
WitnessC33 ==
    /\ timers # {}
    /\ state = OPEN
    /\ successCount >= 1
    /\ failureCount = 0

\* C34: the state is CLOSED exactly if consecutiveOpenCount = 0; an open
\* transition adds exactly one to it, a close transition zeroes it and no
\* other step changes it.
ClaimC34 ==
    /\ [](state = CLOSED <=> consecutiveOpenCount = 0)
    /\ [](state \in {OPEN, HALF_OPEN} => consecutiveOpenCount >= 1)
    /\ [][IF state # OPEN /\ state' = OPEN
          THEN consecutiveOpenCount' = consecutiveOpenCount + 1
          ELSE IF state # CLOSED /\ state' = CLOSED
          THEN consecutiveOpenCount' = 0
          ELSE consecutiveOpenCount' = consecutiveOpenCount]_vars

\* The cooldown of the second consecutive open has run out.
WitnessC34 ==
    /\ state = HALF_OPEN
    /\ consecutiveOpenCount = 2
    /\ emitted = <<EvHalfOpen>>

\* C35: with failureThreshold >= 1, failureCount is between 0 and
\* failureThreshold - 1 whenever the state is CLOSED, attempts in flight or not.
ClaimC35 ==
    (options.failureThreshold >= 1 /\ state = CLOSED) =>
        failureCount \in 0..(options.failureThreshold - 1)

\* Two failures short of a threshold of 3 have completed, one attempt still
\* running.
WitnessC35 ==
    /\ options.failureThreshold = 3
    /\ state = CLOSED
    /\ failureCount = 2
    /\ \E a \in InFlight : a.pc = "running"

\* C36 as claimed: the timer of an open transition is due at least
\* coolDownPeriod after it.
OrigC36 ==
    [][(state # OPEN /\ state' = OPEN) =>
          \E t \in timers' :
             /\ t.id = coolDownTimer'
             /\ t.due - now >= options.coolDownPeriod]_vars

\* C36 amended: the timer of an open transition is due at least
\* min(coolDownPeriod, maxCooldown) after it with backoff and coolDownPeriod
\* after it without; so at least coolDownPeriod unless backoff is on and
\* maxCooldown < coolDownPeriod.
ClaimC36 ==
    [][(state # OPEN /\ state' = OPEN) =>
          \E t \in timers' :
             /\ t.id = coolDownTimer'
             /\ t.due - now >=
                  IF options.useExponentialBackoff
                  THEN Min(options.coolDownPeriod, options.maxCooldown)
                  ELSE options.coolDownPeriod
             /\ (~options.useExponentialBackoff
                   \/ options.maxCooldown >= options.coolDownPeriod) =>
                   t.due - now >= options.coolDownPeriod]_vars

\* A relay with backoff and maxCooldown below coolDownPeriod has just opened
\* with a cooldown of maxCooldown.
WitnessC36 ==
    /\ options.useExponentialBackoff
    /\ options.maxCooldown < options.coolDownPeriod
    /\ state = OPEN
    /\ emitted = <<EvFailure, EvOpen>>
    /\ \E t \in timers : t.id = coolDownTimer /\ t.due - now = options.maxCooldown

\* C37: register(primaryObj, fallbackObj) pairs primaryObj[m] with
\* fallbackObj[m] for every method name m that is a function on both objects,
\* and a name that is a function on one side only registers nothing; a failing
\* attempt on a paired function is answered by the function paired with it.
OrigC37 ==
    [][/\ \A p \in PrimaryObjs, fo \in FallbackObjs :
            registerObject(p, fo) =>
              \A m \in Names \ {"constructor"} :
                 typeof(Get(p, m)) = "function" =>
                    IF typeof(Get(fo, m)) = "function"
                    THEN fallbackRegistry'[Get(p, m)] = Get(fo, m)
                    ELSE fallbackRegistry'[Get(p, m)] = fallbackRegistry[Get(p, m)]
       /\ (totalFailureCount' = totalFailureCount + 1
             /\ fallbackRegistry[returned'.fn] # Undefined) =>
              /\ returned'.outcome.settle = "resolve"
              /\ returned'.outcome.callee = fallbackRegistry[returned'.fn]]_vars

\* riskyMethod carries @UseRelay(relay) with @Fallback above it.
FallbackAboveUseRelay ==
    prototype["riskyMethod"] =
        <<Wrapper("UseRelay", ThisRelay), Wrapper("Fallback", NoInstance)>>

\* What the caller gets when the decorator's fallback answered error.
AnsweredByFallback(error, args) ==
    [settle |-> "resolve", by |-> "decorator", callee |-> fallbackMethod,
     callArgs |-> <<error>> \o args, error |-> error]

\* The method's attempt a fails (it rejects or runs out of time) and the
\* relay records it: both failure counters go up by one, the breaker is
\* OPEN once failureCount has reached the threshold, and the caller is
\* answered by the decorator's fallback, called with the error and the
\* arguments.
FailureRecordedThenFallback(a) ==
    /\ totalFailureCount' = totalFailureCount + 1
    /\ failureCount' = failureCount + 1
    /\ failureCount' >= options.failureThreshold => state' = OPEN
    /\ catchWithFallback(prototype["riskyMethod"], returned'.outcome, a.args) =
          AnsweredByFallback(returned'.outcome.error, a.args)

\* A call while OPEN: the method is not run, nothing is counted, and the
\* decorator's fallback is called with a RelayOpenError and the arguments.
OpenAnsweredByFallback(args) ==
    /\ catchWithFallback(prototype["riskyMethod"], returned'.outcome, args) =
          AnsweredByFallback(RelayOpenError, args)
    /\ attempts' = attempts
    /\ UNCHANGED <<successCount, totalFailureCount, failureCount, timeoutCount>>

\* C38 as stated: with @Fallback above @UseRelay(relay) on a method, each
\* failure of the method is recorded by the relay before the fallback runs
\* (failures and failureCount increase and the breaker opens at
\* failureThreshold), and once the relay is OPEN each call invokes the
\* fallback with a RelayOpenError and the original arguments without running
\* the method -- whatever the relay's configuration.
OrigC38 ==
    [][FallbackAboveUseRelay =>
         /\ \A a \in InFlight :
               (OpReject(a) \/ Timeout(a)) => FailureRecordedThenFallback(a)
         /\ \A args \in ArgLists :
               (state = OPEN /\ invoke("riskyMethod", args)) =>
                  OpenAnsweredByFallback(args)]_vars

\* C38: with @Fallback above @UseRelay(relay) on a method and a relay that
\* has no onFallback, each failure of the method is recorded by the relay
\* before the fallback runs (failures and failureCount increase and the
\* breaker opens at failureThreshold), and once the relay is OPEN each call
\* invokes the fallback with a RelayOpenError and the original arguments
\* without running the method.
ClaimC38 ==
    [][(FallbackAboveUseRelay /\ ~options.onFallback) =>
         /\ \A a \in InFlight :
               (OpReject(a) \/ Timeout(a)) => FailureRecordedThenFallback(a)
         /\ \A args \in ArgLists :
               (state = OPEN /\ invoke("riskyMethod", args)) =>
                  OpenAnsweredByFallback(args)]_vars

\* The relay, which has no onFallback, has opened on the failures of the
\* decorated method and has just turned a call away with a RelayOpenError,
\* which the decorator's fallback answers.
WitnessC38 ==
    /\ FallbackAboveUseRelay
    /\ ~options.onFallback
    /\ state = OPEN
    /\ totalFailureCount >= options.failureThreshold
    /\ returned.call
    /\ returned.fn = BoundMethod
    /\ returned.outcome.settle = "reject"
    /\ returned.outcome.error = RelayOpenError
    /\ catchWithFallback(prototype["riskyMethod"], returned.outcome, returned.args) =
          AnsweredByFallback(RelayOpenError, returned.args)


\* C39: a class-level @RelayClass(relay) or @UseRelay(relay) protects the
\* async methods of a class that also carry a fallback decorator
\* (@FallbackClass below it, or a method-level @Fallback): every call of
\* such a method is a relay.run() on the relay, which counts it in total once
\* it completes, and none reaches the method outside the relay.
OrigC39 ==
    [][\A name \in Methods, args \in ArgLists :
         (/\ \E i \in DOMAIN applied : applied[i] \in RelayKinds
          /\ Declared[name] = "AsyncFunction"
          /\ hasFallback(prototype[name])
          /\ invoke(name, args)) =>
            /\ returned'.call
            /\ returned'.fn = BoundMethod
            /\ unprotectedCall' = unprotectedCall]_vars

\* The calls that went through decorated methods, and the decorations that
\* resolved the default instance, each with the static calls before it.
RunsThroughDefault ==
    {k \in DOMAIN defaultCalls : defaultCalls[k].op = "run"}
Resolved(j) ==
    /\ defaultCalls[j].op = "UseRelay"
    /\ SlotAfter(SubSeq(defaultCalls, 1, j - 1)) # NoInstance

\* C40: @UseRelay() without an argument resolves the default instance once,
\* when the decorator is applied: the application throws the 'No default
\* Relay instance set' error and wraps nothing when the slot is empty at
\* that moment, and every call of a decorated method runs through the
\* instance the slot held when the decorator was applied, whatever
\* setDefault() and clearDefault() calls came in between.
ClaimC40 ==
    /\ (defaultCalls # <<>> /\ defaultCalls[Len(defaultCalls)].op = "UseRelay") =>
          IF SlotAfter(defaultCalls) = NoInstance
          THEN /\ defaultResult = [threw |-> TRUE, value |-> NoDefaultError]
               /\ \A name \in Methods : ~isProtected(prototype[name])
          ELSE /\ defaultResult = [threw |-> FALSE, value |-> SlotAfter(defaultCalls)]
               /\ \E name \in Methods : isProtected(prototype[name])
    /\ \A k \in RunsThroughDefault :
          \E j \in 1..(k - 1) :
             /\ Resolved(j)
             /\ defaultCalls[k].arg = SlotAfter(SubSeq(defaultCalls, 1, j - 1))

\* A method decorated while relayA was the default has just been called
\* after the default was replaced by relayB, and ran through relayA.
WitnessC40 ==
    /\ Len(defaultCalls) = 4
    /\ defaultCalls[1] = [op |-> "setDefault", arg |-> "relayA"]
    /\ defaultCalls[2].op = "UseRelay"
    /\ defaultCalls[3] = [op |-> "setDefault", arg |-> "relayB"]
    /\ defaultCalls[4] = [op |-> "run", arg |-> "relayA"]
    /\ defaultInstance = "relayB"


====
